---- MODULE Spec2Model ----
(***************************************************************************)
(* A state-machine model of vlitejs 4.0.0: the Player core                 *)
(* (src/src/vlite/js/player.ts), the control bar (src/unnamed/part_000)    *)
(* and the host shell (src/src/vlite/js/vlite.ts).                         *)
(*                                                                         *)
(* Units.  Volumes are integers in hundredths (1.0 is 100, the keyboard    *)
(* step 0.05 is 5).  Times returned by the adapter are in tenths of a      *)
(* second, durations in whole seconds.  The progress slider's value and    *)
(* its "--value" fill are in tenths of a percent, so that parseInt has     *)
(* something to truncate.                                                  *)
(*                                                                         *)
(* The adapter (provider) is outside the sources: its commands are         *)
(* recorded in `trace`, its futures are entries of `pending` that the      *)
(* environment resolves or rejects later, in any order.                    *)
(*                                                                         *)
(* A scenario fixes the configuration and how much the environment does:   *)
(* how many listeners the consumer registers (limits.regs) and how many    *)
(* time-update and seek futures are in flight at once (limits.futures).    *)
(* Spec runs every operation over scenarios with at most one of either;    *)
(* SpecEvents gives the registry MaxRegs registrations, SpecFutures the    *)
(* adapter MaxPending futures in flight.  SpecAdapter takes one capability *)
(* at a time away from the adapter, SpecHost runs the control bar's        *)
(* toggles and the host shell's handlers and timer, SpecTeardown runs      *)
(* registrations and time updates across destroy().                        *)
(*                                                                         *)
(* An exception is the field `error` of the state an operation leaves:     *)
(* the statements after the throw have not run.                            *)
(***************************************************************************)
EXTENDS Integers, Sequences, FiniteSets, Bags, TLC

\* ------------------------------------------------------------- bounds
\* Most registrations on(type, listener) made over a player's life.
MaxRegs == 2
\* Most adapter futures in flight at once.
MaxPending == 2

\* ---------------------------------------------------- program constants
\* The upper clamp of setVolume, 1, in hundredths.
VolumeOne == 100

\* --------------------------------------------------------- input sets
\* Kinds a consumer subscribes to in the model.
OnKinds == {"play", "pause", "timeupdate"}
\* Kinds dispatched from outside the Player's own methods in the model.
DispatchKinds == {"play", "timeupdate", "progress"}
Listeners == {1, 2}
\* A listener argument that is not a function.
NotAFunction == 0
VolumeInputs == {-5, 0, 5, 100, 105}
SliderInputs == {50, 100}
TimeInputs == {334, 1000}

\* Key codes of onKeydown: tab, enter, space, left, right.
KeyCodes == {9, 13, 32, 37, 39}
\* Arguments of seekTo, seconds.
SeekInputs == {0, 50}

NULL == "null"
True == "true"
False == "false"

\* What the selector argument of new Vlitejs(selector, ...) denotes: a media
\* element (given directly or found by a string selector), a string selector
\* that matches nothing, a string selector that matches an element that is
\* neither audio nor video, an object that is not a media element.
Media == "media"
SelectorMiss == "selector: no element"
SelectorDiv == "selector: div element"
NonMediaObject == "object: div element"

\* Errors.
NoError == ""
NotValid == "vlitejs :: The element or selector supplied is not valid."
NullDereference == "TypeError: Cannot read properties of null"
NotImplemented(fn) == "You have to implement the function " \o fn

\* The capabilities Player leaves to the provider and calls itself.
Capabilities ==
  {"init", "getCurrentTime", "methodSeekTo", "getDuration", "methodPlay", "methodPause",
   "methodSetVolume", "methodGetVolume", "methodMute", "methodUnMute"}

VARIABLES
  type,            \* Player.type / Vlitejs.type: "video" | "audio"
  options,         \* Vlitejs.options, merged at construction
  support,         \* runtime fullscreen capabilities (media[requestFn], document[cancelFn])
  duration,        \* what the adapter's getDuration resolves to, seconds
  limits,          \* the scenario's limits on the environment
  target,          \* what the constructor's selector argument denotes
  attributes,      \* autoplay, playsinline, muted, loop attributes of the media element
  implemented,     \* the capabilities the adapter (provider) overrides
  built,           \* the constructor returned: player.build() and addEvents() ran
  listening,       \* the host shell's listeners are attached (Vlitejs.addEvents)
  error,           \* the error the operation that ran last threw at its caller
  isPaused,        \* Player.isPaused: NULL | True | False
  isMuted,         \* Player.isMuted
  isFullScreen,    \* Player.isFullScreen
  vIsPaused,       \* Vlitejs.isPaused
  customEvents,    \* Player.customEvents: kind -> sequence of listeners
  container,       \* class list of elements.container
  volumePressed,   \* elements.volume has v-pressed
  fullscreenPressed, \* elements.fullscreen has v-pressed
  posterActive,    \* elements.poster has v-active
  hidden,          \* the control bar has class hidden
  labels,          \* aria-label of playPause, bigPlay, volume, fullscreen
  progress,        \* elements.progressBar: value, --value, aria-valuenow, aria-valuemax
  timeLabels,      \* innerHTML of elements.currentTime and elements.duration
  timers,          \* number of pending auto-hide timeouts
  timerLive,       \* Vlitejs.timerAutoHide names a pending timeout
  inDocument,      \* the container is still in the document
  pending,         \* adapter futures in flight, a bag
  ready,           \* onPlayerReady has run
  destroyed,       \* Player.destroy has run
  docFullScreen,   \* document[supportFullScreen.isFullScreen]: the platform shows an element fullscreen
  registered,      \* history: every accepted on(type, listener), in call order
  cleared,         \* history: how many of them the last destroy() removed
  lastArg,         \* history: the argument of the operation that ran last
  lastOp,          \* the operation that ran last
  trace            \* adapter commands and events of the operation that ran last

config == <<type, options, support, duration, limits, target, attributes, implemented>>
vars ==
  <<type, options, support, duration, limits, target, attributes, implemented, built,
    listening, error, isPaused, isMuted, isFullScreen, vIsPaused,
    customEvents, container, volumePressed, fullscreenPressed, posterActive, hidden,
    labels, progress, timeLabels, timers, timerLive, inDocument, pending, ready,
    destroyed, docFullScreen, registered, cleared, lastArg, lastOp, trace>>

\* ------------------------------------------------------ configuration
\* A key the source's defaults do not list (undefined), and poster: null, is FALSE.
DEFAULT_OPTIONS(t) ==
  IF t = "audio"
  THEN [autoplay |-> FALSE, controls |-> TRUE, playPause |-> TRUE, progressBar |-> TRUE,
        time |-> TRUE, volume |-> TRUE, loop |-> FALSE,
        fullscreen |-> FALSE, poster |-> FALSE, bigPlay |-> FALSE, autoHide |-> FALSE,
        playsinline |-> FALSE, muted |-> FALSE]
  ELSE [autoplay |-> FALSE, controls |-> TRUE, playPause |-> TRUE, progressBar |-> TRUE,
        time |-> TRUE, volume |-> TRUE, loop |-> FALSE,
        fullscreen |-> TRUE, poster |-> FALSE, bigPlay |-> TRUE, autoHide |-> FALSE,
        playsinline |-> TRUE, muted |-> FALSE]

\* The caller's options: the keys it sets to the opposite of the default.  The
\* target is a media element of kind t without attributes, the adapter
\* implements every capability.
Scenario(t, keys, req, can, d, regs, futs) ==
  [type |-> t, keys |-> keys, support |-> [request |-> req, cancel |-> can],
   duration |-> d, limits |-> [regs |-> regs, futures |-> futs],
   target |-> Media, attrs |-> {}, lacks |-> {}]

\* The media element carries the attributes attrs in the page.
WithAttributes(sc, attrs) == [sc EXCEPT !.attrs = attrs]
\* The selector argument denotes tg.
WithTarget(sc, tg) == [sc EXCEPT !.target = tg]
\* The adapter leaves the capability fn to Player's stub.
Lacking(sc, fn) == [sc EXCEPT !.lacks = {fn}]

\* Every operation, with at most one listener or one future in flight.
Scenarios ==
  {Scenario("video", {}, TRUE, TRUE, 200, 1, 0),
   Scenario("video", {"autoplay"}, FALSE, FALSE, 200, 0, 1),
   Scenario("video", {"loop"}, FALSE, TRUE, 100, 0, 1),
   Scenario("video", {"autoplay", "muted"}, TRUE, TRUE, 100, 0, 0),
   Scenario("video", {"autoplay", "loop"}, TRUE, FALSE, 200, 0, 0),
   Scenario("video", {"controls"}, TRUE, FALSE, 200, 1, 0),
   Scenario("audio", {}, FALSE, FALSE, 100, 1, 0),
   Scenario("audio", {"loop", "muted"}, FALSE, FALSE, 200, 0, 1),
   WithAttributes(Scenario("video", {"playsinline"}, TRUE, TRUE, 100, 0, 0),
                  {"playsinline", "loop"}),
   WithAttributes(Scenario("audio", {"autoplay"}, FALSE, FALSE, 200, 0, 0), {"muted"}),
   WithTarget(Scenario("video", {}, TRUE, TRUE, 100, 0, 0), SelectorMiss),
   WithTarget(Scenario("video", {}, TRUE, TRUE, 100, 0, 0), SelectorDiv),
   WithTarget(Scenario("video", {}, TRUE, TRUE, 100, 0, 0), NonMediaObject)}

\* The consumer registers up to MaxRegs listeners.
EventScenarios ==
  {Scenario("video", {}, TRUE, TRUE, 200, MaxRegs, 0),
   Scenario("video", {"autoplay", "loop"}, TRUE, TRUE, 100, MaxRegs, 0)}

\* Up to MaxPending time-update and seek futures are in flight.
FutureScenarios ==
  {Scenario("video", {}, TRUE, TRUE, 200, 0, MaxPending),
   Scenario("video", {"loop"}, TRUE, TRUE, 100, 0, MaxPending),
   Scenario("video", {"time"}, TRUE, TRUE, 100, 0, MaxPending)}

\* The control bar's and the host shell's handlers: auto-hide, poster, absent
\* control nodes, a runtime without fullscreen.
HostScenarios ==
  {Scenario("video", {"autoHide"}, TRUE, TRUE, 200, 0, 1),
   Scenario("video", {"autoHide", "autoplay"}, TRUE, TRUE, 100, 0, 0),
   Scenario("video", {"poster", "loop"}, TRUE, TRUE, 100, 0, 0),
   Scenario("video", {"poster"}, TRUE, TRUE, 100, 0, 0),
   Scenario("video", {"volume", "fullscreen"}, TRUE, TRUE, 100, 0, 0),
   Scenario("video", {"controls", "autoHide"}, TRUE, TRUE, 100, 0, 0),
   Scenario("video", {}, FALSE, FALSE, 200, 0, 0),
   Scenario("audio", {}, FALSE, FALSE, 200, 0, 0)}

\* Configurations for the fullscreen handlers and the host's teardown: each
\* combination of the two fullscreen capabilities the platform may expose.
ScreenScenarios ==
  {Scenario("video", {}, TRUE, TRUE, 200, 0, 1),
   Scenario("video", {"autoplay"}, TRUE, TRUE, 200, 0, 0),
   Scenario("video", {"fullscreen"}, TRUE, TRUE, 200, 0, 0),
   Scenario("video", {}, TRUE, FALSE, 200, 0, 0),
   Scenario("video", {}, FALSE, TRUE, 200, 0, 0),
   Scenario("video", {}, FALSE, FALSE, 200, 0, 0),
   Scenario("audio", {}, TRUE, TRUE, 200, 0, 0)}

\* Listeners and a time update in flight across a destroy().
TeardownScenarios ==
  {Scenario("video", {}, TRUE, TRUE, 200, MaxRegs, 1)}

\* The adapter misses one capability at a time; one future in flight.
AdapterScenarios ==
  {Lacking(Scenario("video", {}, TRUE, TRUE, 100, 0, 1), fn) : fn \in Capabilities}

\* The options object the caller passes: only the keys it sets.
callerOptions(t, keys) == [k \in keys |-> ~DEFAULT_OPTIONS(t)[k]]

\* The constructor's pass over domAttributes: an attribute of the element sets the
\* caller's option, an option the caller set true sets the attribute.
domAttributes == {"autoplay", "playsinline", "muted", "loop"}
optionsFromAttributes(o, attrs) ==
  [k \in DOMAIN o \cup (attrs \cap domAttributes) |-> IF k \in attrs THEN TRUE ELSE o[k]]
attributesFromOptions(o, attrs) ==
  attrs \cup {k \in domAttributes \cap DOMAIN o : o[k]}

\* { ...DEFAULT_OPTIONS[type], ...options }; a key absent from both is falsy.
MergeOptions(t, o) ==
  [k \in DOMAIN DEFAULT_OPTIONS(t) |-> IF k \in DOMAIN o THEN o[k] ELSE DEFAULT_OPTIONS(t)[k]]

autoHideGranted == type = "video" /\ options.autoHide /\ options.controls

\* Which nodes exist after renderLayout and ControlBar.cacheElements.
ElBigPlay == type = "video" /\ options.bigPlay
ElPoster == type = "video" /\ options.poster
ElControlBar == options.controls
ElPlayPause == ElControlBar /\ options.playPause
ElProgressBar == ElControlBar /\ options.progressBar
ElCurrentTime == ElControlBar /\ options.time
ElDuration == ElControlBar /\ options.time
ElVolume == ElControlBar /\ options.volume
ElFullscreen == ElControlBar /\ type = "video" /\ options.fullscreen

\* ------------------------------------------------------------- helpers
Call(n, a) == [t |-> "call", n |-> n, a |-> a]
Dispatch(k) == [t |-> "dispatch", n |-> k, a |-> 0]
Invoke(k, l) == [t |-> "invoke", n |-> k, a |-> l]

Emit(p, es) == [p EXCEPT !.trace = @ \o es]

\* An exception: the statements after the throw do not run.
Throw(p, e) == [p EXCEPT !.error = e]
Ok(p) == p.error = NoError

\* DOMTokenList.replace(old, new): only when old is present.
ClassReplace(cl, old, new) == IF old \in cl THEN (cl \ {old}) \cup {new} ELSE cl

NoValue == -1

\* Math.round of a time given in tenths of a second, in seconds.
MathRound(tenths) == (tenths + 5) \div 10

\* parseInt of a slider value given in tenths of a percent.
ParseInt(v) == v \div 10

Digit(d) == CASE d = 0 -> "0" [] d = 1 -> "1" [] d = 2 -> "2" [] d = 3 -> "3" [] d = 4 -> "4"
              [] d = 5 -> "5" [] d = 6 -> "6" [] d = 7 -> "7" [] d = 8 -> "8" [] OTHER -> "9"
Pad2(n) == Digit((n \div 10) % 10) \o Digit(n % 10)
\* formatVideoTime(seconds) for times under an hour: "MM:SS".
formatVideoTime(secs) == Pad2(secs \div 60) \o ":" \o Pad2(secs % 60)

\* The player's mutable state as one record, so that methods compose.
Cur ==
  [isPaused |-> isPaused, isMuted |-> isMuted, isFullScreen |-> isFullScreen,
   customEvents |-> customEvents, container |-> container,
   volumePressed |-> volumePressed, fullscreenPressed |-> fullscreenPressed,
   posterActive |-> posterActive, hidden |-> hidden, labels |-> labels,
   progress |-> progress, timeLabels |-> timeLabels, timers |-> timers,
   timerLive |-> timerLive, inDocument |-> inDocument, pending |-> pending,
   trace |-> <<>>, error |-> NoError]

Set(p) ==
  /\ isPaused' = p.isPaused
  /\ isMuted' = p.isMuted
  /\ isFullScreen' = p.isFullScreen
  /\ customEvents' = p.customEvents
  /\ container' = p.container
  /\ volumePressed' = p.volumePressed
  /\ fullscreenPressed' = p.fullscreenPressed
  /\ posterActive' = p.posterActive
  /\ hidden' = p.hidden
  /\ labels' = p.labels
  /\ progress' = p.progress
  /\ timeLabels' = p.timeLabels
  /\ timers' = p.timers
  /\ timerLive' = p.timerLive
  /\ inDocument' = p.inDocument
  /\ pending' = p.pending
  /\ trace' = p.trace
  /\ error' = p.error

\* ------------------------------------------------------ adapter stubs
\* A command of the adapter, or Player's stub of it, which throws.
Stub(p, fn, a) ==
  IF fn \in implemented THEN Emit(p, <<Call(fn, a)>>) ELSE Throw(p, NotImplemented(fn))

methodPlay(p) == Stub(p, "methodPlay", 0)
methodPause(p) == Stub(p, "methodPause", 0)
methodSetVolume(p, newVolume) == Stub(p, "methodSetVolume", newVolume)
methodMute(p) == Stub(p, "methodMute", 0)
methodUnMute(p) == Stub(p, "methodUnMute", 0)
methodSeekTo(p, newTime) == Stub(p, "methodSeekTo", newTime)
\* A future in flight; k names the continuation that waits for it, s is an
\* argument the continuation keeps (the history of the slider tick, the step).
Future(p, k, s) == [p EXCEPT !.pending = @ (+) SetToBag({[k |-> k, s |-> s]})]
\* A query of the adapter, or Player's stub of it, which throws.
getCurrentTime(p, k, s) ==
  IF "getCurrentTime" \in implemented THEN Future(p, k, s)
  ELSE Throw(p, NotImplemented("getCurrentTime"))
getDuration(p, k, s) ==
  IF "getDuration" \in implemented THEN Future(p, k, s)
  ELSE Throw(p, NotImplemented("getDuration"))

\* ------------------------------------------------------- Player core
\* on that ignores a listener already registered for the kind.
on_Dedup(p, ty, listener) ==
  IF listener # NotAFunction
  THEN [p EXCEPT !.customEvents =
          IF ty \in DOMAIN @
          THEN [@ EXCEPT ![ty] = IF \E i \in 1..Len(@) : @[i] = listener
                                 THEN @ ELSE Append(@, listener)]
          ELSE (ty :> <<listener>>) @@ @]
  ELSE p

on(p, ty, listener) ==
  IF listener # NotAFunction
  THEN [p EXCEPT !.customEvents =
          IF ty \in DOMAIN @ THEN [@ EXCEPT ![ty] = Append(@, listener)]
          ELSE (ty :> <<listener>>) @@ @]
  ELSE p

dispatchEvent(p, ty) ==
  IF ty \in DOMAIN p.customEvents
  THEN Emit(p, <<Dispatch(ty)>> \o
                [i \in 1..Len(p.customEvents[ty]) |-> Invoke(ty, p.customEvents[ty][i])])
  ELSE Emit(p, <<Dispatch(ty)>>)

stopAutoHideTimer(p) ==
  IF type = "video" /\ ElControlBar
  THEN [p EXCEPT !.hidden = FALSE,
                 !.timers = IF p.timerLive THEN @ - 1 ELSE @,
                 !.timerLive = FALSE]
  ELSE p

\* startAutoHideTimer that does not look at Vlitejs.isPaused.
startAutoHideTimer_IgnoresPaused(p) ==
  IF type = "video" /\ ElControlBar
  THEN [p EXCEPT !.timers = @ + 1, !.timerLive = TRUE]
  ELSE p

startAutoHideTimer(p) ==
  IF type = "video" /\ ~vIsPaused /\ ElControlBar
  THEN [p EXCEPT !.timers = @ + 1, !.timerLive = TRUE]
  ELSE p

afterPlayPause(p) ==
  IF autoHideGranted
  THEN LET q == stopAutoHideTimer(p)
       IN IF p.isPaused # True THEN startAutoHideTimer(q) ELSE q
  ELSE p

\* play that adds v-playing without removing v-paused.
play_KeepsPausedClass(p) ==
  LET p1 == IF "v-firstStart" \in p.container
            THEN [p EXCEPT !.container = @ \ {"v-firstStart"},
                           !.posterActive = IF type = "video" /\ ElPoster THEN FALSE ELSE @]
            ELSE p
      p2 == methodPlay(p1)
      p3 == [p2 EXCEPT !.isPaused = False,
                       !.container = @ \cup {"v-playing"},
                       !.labels.playPause = IF ElPlayPause THEN "Pause" ELSE @,
                       !.labels.bigPlay = IF type = "video" /\ ElBigPlay THEN "Pause" ELSE @]
  IN IF Ok(p2) THEN dispatchEvent(afterPlayPause(p3), "play") ELSE p2

play(p) ==
  LET p1 == IF "v-firstStart" \in p.container
            THEN [p EXCEPT !.container = @ \ {"v-firstStart"},
                           !.posterActive = IF type = "video" /\ ElPoster THEN FALSE ELSE @]
            ELSE p
      p2 == methodPlay(p1)
      p3 == [p2 EXCEPT !.isPaused = False,
                       !.container = ClassReplace(@, "v-paused", "v-playing"),
                       !.labels.playPause = IF ElPlayPause THEN "Pause" ELSE @,
                       !.labels.bigPlay = IF type = "video" /\ ElBigPlay THEN "Pause" ELSE @]
  IN IF Ok(p2) THEN dispatchEvent(afterPlayPause(p3), "play") ELSE p2

\* pause that emits the play event.
pause_EmitsPlay(p) ==
  LET p1 == methodPause(p)
      p2 == [p1 EXCEPT !.isPaused = True,
                       !.container = ClassReplace(@, "v-playing", "v-paused"),
                       !.labels.playPause = IF ElPlayPause THEN "Play" ELSE @,
                       !.labels.bigPlay = IF type = "video" /\ ElBigPlay THEN "Play" ELSE @]
  IN IF Ok(p1) THEN dispatchEvent(afterPlayPause(p2), "play") ELSE p1

pause(p) ==
  LET p1 == methodPause(p)
      p2 == [p1 EXCEPT !.isPaused = True,
                       !.container = ClassReplace(@, "v-playing", "v-paused"),
                       !.labels.playPause = IF ElPlayPause THEN "Play" ELSE @,
                       !.labels.bigPlay = IF type = "video" /\ ElBigPlay THEN "Play" ELSE @]
  IN IF Ok(p1) THEN dispatchEvent(afterPlayPause(p2), "pause") ELSE p1

\* setVolume without the upper clamp.
setVolume_NoUpperClamp(p, volume) ==
  LET v == IF volume <= 0 THEN 0 ELSE volume
      p1 == IF volume <= 0
            THEN [p EXCEPT !.isMuted = TRUE,
                           !.volumePressed = IF ElVolume THEN TRUE ELSE @]
            ELSE [p EXCEPT !.isMuted = FALSE,
                           !.volumePressed = IF ElVolume THEN FALSE ELSE @]
      p2 == methodSetVolume(p1, v)
  IN IF Ok(p2) THEN dispatchEvent(p2, "volumechange") ELSE p2

setVolume(p, volume) ==
  LET v == IF volume > VolumeOne THEN VolumeOne ELSE IF volume <= 0 THEN 0 ELSE volume
      p1 == IF volume > VolumeOne THEN p
            ELSE IF volume <= 0
            THEN [p EXCEPT !.isMuted = TRUE,
                           !.volumePressed = IF ElVolume THEN TRUE ELSE @]
            ELSE [p EXCEPT !.isMuted = FALSE,
                           !.volumePressed = IF ElVolume THEN FALSE ELSE @]
      p2 == methodSetVolume(p1, v)
  IN IF Ok(p2) THEN dispatchEvent(p2, "volumechange") ELSE p2

mute(p) ==
  LET p1 == methodMute(p)
  IN IF Ok(p1)
     THEN dispatchEvent([p1 EXCEPT !.isMuted = TRUE,
                                   !.volumePressed = IF ElVolume THEN TRUE ELSE @],
                        "volumechange")
     ELSE p1

\* unMute done by restoring the full volume.
unMute_BySetVolume(p) ==
  LET p1 == methodSetVolume(p, VolumeOne)
  IN IF Ok(p1)
     THEN dispatchEvent([p1 EXCEPT !.isMuted = FALSE,
                                   !.volumePressed = IF ElVolume THEN FALSE ELSE @],
                        "volumechange")
     ELSE p1

unMute(p) ==
  LET p1 == methodUnMute(p)
  IN IF Ok(p1)
     THEN dispatchEvent([p1 EXCEPT !.isMuted = FALSE,
                                   !.volumePressed = IF ElVolume THEN FALSE ELSE @],
                        "volumechange")
     ELSE p1

seekTo(p, newTime) == methodSeekTo(p, newTime)

\* requestFullscreen without the capability check.
requestFullscreen_Unguarded(p) ==
  dispatchEvent(
    [Emit(p, <<Call("requestFn", 0)>>) EXCEPT
       !.isFullScreen = TRUE,
       !.container = @ \cup {"v-fullscreenButton-display"},
       !.fullscreenPressed = IF ElFullscreen THEN TRUE ELSE @],
    "enterfullscreen")

requestFullscreen(p) ==
  IF support.request
  THEN dispatchEvent(
         [Emit(p, <<Call("requestFn", 0)>>) EXCEPT
            !.isFullScreen = TRUE,
            !.container = @ \cup {"v-fullscreenButton-display"},
            !.fullscreenPressed = IF ElFullscreen THEN TRUE ELSE @],
         "enterfullscreen")
  ELSE p

\* exitFullscreen that issues the cancel command whatever escKey.
exitFullscreen_AlwaysCancels(p, escKey) ==
  IF support.cancel
  THEN dispatchEvent(
         [Emit(p, <<Call("cancelFn", 0)>>) EXCEPT
            !.isFullScreen = FALSE,
            !.container = @ \ {"v-fullscreenButton-display"},
            !.fullscreenPressed = IF ElFullscreen THEN FALSE ELSE @],
         "exitfullscreen")
  ELSE p

exitFullscreen(p, escKey) ==
  IF support.cancel
  THEN dispatchEvent(
         [(IF ~escKey THEN Emit(p, <<Call("cancelFn", 0)>>) ELSE p) EXCEPT
            !.isFullScreen = FALSE,
            !.container = @ \ {"v-fullscreenButton-display"},
            !.fullscreenPressed = IF ElFullscreen THEN FALSE ELSE @],
         "exitfullscreen")
  ELSE p

\* Vlitejs.loading, reached through Player.loading.
loading(p, state) ==
  dispatchEvent([p EXCEPT !.container = IF state THEN @ \cup {"v-loading"}
                                         ELSE @ \ {"v-loading"}],
                "progress")

\* ControlBar.onPlayerReady: the duration label waits for the adapter.
controlBarOnPlayerReady(p) == getDuration(p, "duration", 0)

\* onPlayerReady that plays before it mutes.
onPlayerReady_PlayBeforeMute(p, mediaMuted) ==
  LET p0 == IF options.autoplay THEN play(p) ELSE p
      p1 == IF options.autoplay /\ ~mediaMuted /\ Ok(p0) THEN mute(p0) ELSE p0
      p2 == IF Ok(p1) THEN loading(p1, FALSE) ELSE p1
      p3 == IF options.controls /\ Ok(p2) THEN controlBarOnPlayerReady(p2) ELSE p2
  IN IF Ok(p3) THEN Emit(p3, <<Call("onReady", 0)>>) ELSE p3

onPlayerReady(p, mediaMuted) ==
  LET p0 == IF options.autoplay /\ ~mediaMuted THEN mute(p) ELSE p
      p1 == IF options.autoplay /\ Ok(p0) THEN play(p0) ELSE p0
      p2 == IF Ok(p1) THEN loading(p1, FALSE) ELSE p1
      p3 == IF options.controls /\ Ok(p2) THEN controlBarOnPlayerReady(p2) ELSE p2
  IN IF Ok(p3) THEN Emit(p3, <<Call("onReady", 0)>>) ELSE p3

\* onTimeUpdate that queries the adapter whatever the time option.
onTimeUpdate_IgnoresOption(p) ==
  IF "getCurrentTime" \in implemented
  THEN getDuration(p, "timeupdate", 0)
  ELSE Throw(p, NotImplemented("getCurrentTime"))

\* Promise.all([getCurrentTime(), getDuration()]): one continuation for the two.
onTimeUpdate(p) ==
  IF options.time
  THEN IF "getCurrentTime" \in implemented
       THEN getDuration(p, "timeupdate", 0)
       ELSE Throw(p, NotImplemented("getCurrentTime"))
  ELSE p

\* The callback of onTimeUpdate's Promise.all, with both results.
onTimeUpdateThen(p, seconds, dur) ==
  LET currentTime == MathRound(seconds)
      width == (currentTime * 1000) \div dur
      p1 == IF ElProgressBar
            THEN [p EXCEPT !.progress.value = width, !.progress.fill = width,
                           !.progress.valuenow = MathRound(seconds)]
            ELSE p
      p2 == IF ElCurrentTime
            THEN [p1 EXCEPT !.timeLabels.currentTime = formatVideoTime(currentTime)]
            ELSE p1
  IN dispatchEvent(p2, "timeupdate")

\* onVideoEnded that resets the progress indicator only when it replays.
onVideoEnded_ResetOnLoop(p) ==
  LET p1 == IF options.loop THEN play(p)
            ELSE [p EXCEPT !.container =
                    ClassReplace(@, "v-playing", "v-paused") \cup {"v-firstStart"}]
      p2 == IF options.poster /\ ElPoster THEN [p1 EXCEPT !.posterActive = TRUE] ELSE p1
      p3 == IF ElProgressBar /\ options.loop
            THEN [p2 EXCEPT !.progress.value = 0, !.progress.fill = 0,
                            !.progress.valuenow = NoValue]
            ELSE p2
      p4 == IF ElCurrentTime THEN [p3 EXCEPT !.timeLabels.currentTime = "00:00"] ELSE p3
  IN IF Ok(p1) THEN dispatchEvent(p4, "ended") ELSE p1

onVideoEnded(p) ==
  LET p1 == IF options.loop THEN play(p)
            ELSE [p EXCEPT !.container =
                    ClassReplace(@, "v-playing", "v-paused") \cup {"v-firstStart"}]
      p2 == IF options.poster /\ ElPoster THEN [p1 EXCEPT !.posterActive = TRUE] ELSE p1
      p3 == IF ElProgressBar
            THEN [p2 EXCEPT !.progress.value = 0, !.progress.fill = 0,
                            !.progress.valuenow = NoValue]
            ELSE p2
      p4 == IF ElCurrentTime THEN [p3 EXCEPT !.timeLabels.currentTime = "00:00"] ELSE p3
  IN IF Ok(p1) THEN dispatchEvent(p4, "ended") ELSE p1

\* destroy that leaves the registry as it is.
destroy_KeepsRegistry(p) ==
  LET p1 == pause(p)
  IN IF Ok(p1) THEN [p1 EXCEPT !.inDocument = FALSE] ELSE p1

\* Player.destroy: pause, detach the control bar, empty the registry, remove the container.
destroy(p) ==
  LET p1 == pause(p)
  IN IF Ok(p1)
     THEN [p1 EXCEPT !.customEvents = [k \in {} |-> <<>>], !.inDocument = FALSE]
     ELSE p1

\* ------------------------------------------------------- control bar
\* ControlBar.onInputProgressBar: the browser has set the slider to s.
onInputProgressBar(p, s) ==
  getDuration([p EXCEPT !.progress.value = s, !.progress.fill = s], "seek", s)

\* The callback of onInputProgressBar's getDuration, reading the slider then.
onInputProgressBarThen(p, dur) ==
  seekTo(p, (ParseInt(p.progress.value) * dur) \div 100)

\* The callback of ControlBar.onPlayerReady's getDuration.
controlBarOnPlayerReadyThen(p, dur) ==
  LET p1 == IF ElProgressBar THEN [p EXCEPT !.progress.valuemax = dur] ELSE p
  IN IF ElDuration THEN [p1 EXCEPT !.timeLabels.duration = formatVideoTime(dur)] ELSE p1

\* ControlBar.togglePlayPause; Vlitejs.togglePlayPause has the same body.
togglePlayPause(p) == IF "v-paused" \in p.container THEN play(p) ELSE pause(p)

\* ControlBar.toggleVolume: elements.volume! is read before anything else.
toggleVolume(p) ==
  IF ~ElVolume THEN Throw(p, NullDereference)
  ELSE IF p.volumePressed
  THEN LET q == unMute(p) IN IF Ok(q) THEN [q EXCEPT !.labels.volume = "Mute"] ELSE q
  ELSE LET q == mute(p) IN IF Ok(q) THEN [q EXCEPT !.labels.volume = "Unmute"] ELSE q

\* ControlBar.toggleFullscreen: elements.fullscreen! is read after the command.
toggleFullscreen(p) ==
  IF p.isFullScreen
  THEN LET q == exitFullscreen(p, FALSE)
       IN IF ElFullscreen THEN [q EXCEPT !.labels.fullscreen = "Enter fullscreen"]
          ELSE Throw(q, NullDereference)
  ELSE LET q == requestFullscreen(p)
       IN IF ElFullscreen THEN [q EXCEPT !.labels.fullscreen = "Exit fullscreen"]
          ELSE Throw(q, NullDereference)

\* ------------------------------------------------------- host shell
\* Vlitejs.fastForward: the step, in tenths of a second, waits for the current time.
fastForward(p, direction) ==
  getCurrentTime(p, "fastForward", IF direction = "backward" THEN -50 ELSE 50)

\* The callback of fastForward's getCurrentTime.
fastForwardThen(p, seconds, step) == seekTo(p, seconds + step)

onKeydown(p, keyCode) ==
  LET p1 == IF autoHideGranted /\ keyCode \in {9, 32, 37, 39}
            THEN startAutoHideTimer(stopAutoHideTimer(p))
            ELSE p
  IN CASE keyCode = 32 -> togglePlayPause(p1)
       [] keyCode = 37 -> fastForward(p1, "backward")
       [] keyCode = 39 -> fastForward(p1, "forward")
       [] OTHER -> p1

onMousemove(p) == IF ~vIsPaused THEN startAutoHideTimer(stopAutoHideTimer(p)) ELSE p

\* The callback of startAutoHideTimer's timeout.
autoHideTimeout(p) ==
  [p EXCEPT !.hidden = TRUE, !.timers = @ - 1,
            !.timerLive = IF p.timers = 1 THEN FALSE ELSE @]

\* onChangeFullScreen that does not look at player.isFullScreen.
onChangeFullScreen_Unguarded(p) ==
  IF ~docFullScreen THEN exitFullscreen(p, TRUE) ELSE p

\* Vlitejs.onChangeFullScreen: the platform left fullscreen behind the player's back.
onChangeFullScreen(p) ==
  IF ~docFullScreen /\ p.isFullScreen THEN exitFullscreen(p, TRUE) ELSE p

\* Vlitejs.controlBar is declared and never assigned: the control bar is Player.controlBar.
vlitejsControlBar == NULL

\* Vlitejs.onDoubleClickOnPlayer: on the overlay, this.controlBar.toggleFullscreen(e).
onDoubleClickOnPlayer(p, onOverlay) ==
  IF onOverlay
  THEN IF vlitejsControlBar = NULL THEN Throw(p, NullDereference) ELSE toggleFullscreen(p)
  ELSE p

\* ControlBar.destroy: removeEvents, then the control bar node is removed.
controlBarDestroy(p) == p

\* Vlitejs.destroy: removeEvents (the host's listeners), player.destroy(),
\* this.controlBar.destroy().
vlitejsDestroy(p) ==
  LET p1 == destroy(p)
  IN IF ~Ok(p1) THEN p1
     ELSE IF vlitejsControlBar = NULL THEN Throw(p1, NullDereference)
     ELSE controlBarDestroy(p1)

\* Player.getVolume: a throw inside the executor of the new promise rejects it.
getVolume(p) ==
  IF "methodGetVolume" \in implemented THEN Future(p, "getVolume", 0)
  ELSE Emit(p, <<[t |-> "rejected", n |-> "getVolume", a |-> 0]>>)

\* ------------------------------------------------------ construction
\* What the constructor throws, if it throws.
constructorError(tg, impl) ==
  CASE tg = NonMediaObject -> NotValid
    [] tg = SelectorMiss -> NullDereference
    [] "init" \notin impl -> NotImplemented("init")
    [] OTHER -> NoError

\* this.type, assigned after the target was taken and before its attributes are read.
typeOf(tg, t) ==
  CASE tg = Media -> t
    [] tg = NonMediaObject -> NULL
    [] OTHER -> "video"

\* What the control-bar, poster and big-play templates render at first.
Template(t, o) ==
  [labels |-> [playPause |-> IF o.controls /\ o.playPause THEN "Play" ELSE "",
               bigPlay |-> IF t = "video" /\ o.bigPlay THEN "Play" ELSE "",
               fullscreen |-> IF o.controls /\ t = "video" /\ o.fullscreen
                              THEN "Enter fullscreen" ELSE ""],
   volumePressed |-> o.controls /\ o.volume /\ o.muted,
   posterActive |-> t = "video" /\ o.poster,
   progress |-> [value |-> 0, fill |-> 0, valuenow |-> NoValue, valuemax |-> NoValue],
   timeLabels |-> [currentTime |-> "00:00", duration |-> "00:00"]]

\* wrapElement: the classes of the new container.
wrapElement == {"v-firstStart", "v-paused", "v-loading"}

\* ControlBar.cacheElements: the volume control's label follows isMuted.
cacheElements(t, o) == IF o.controls /\ o.volume THEN (IF o.muted THEN "Unmute" ELSE "Mute") ELSE ""

\* The state after new Vlitejs(selector, {options, ...}) has returned.
InitFrom(scenarios) ==
  /\ \E sc \in scenarios :
       /\ target = sc.target
       /\ type = typeOf(sc.target, sc.type)
       /\ options = MergeOptions(sc.type,
                                 optionsFromAttributes(callerOptions(sc.type, sc.keys), sc.attrs))
       /\ attributes = IF sc.target \in {Media, SelectorDiv}
                       THEN attributesFromOptions(callerOptions(sc.type, sc.keys), sc.attrs)
                       ELSE sc.attrs
       /\ implemented = Capabilities \ sc.lacks
       /\ support = sc.support
       /\ duration = sc.duration
       /\ limits = sc.limits
  /\ error = constructorError(target, implemented)
  /\ built = (error = NoError)
  /\ listening = (error = NoError)
  /\ isPaused = NULL
  /\ isMuted = options.muted
  /\ isFullScreen = FALSE
  /\ vIsPaused = TRUE
  /\ customEvents = [k \in {} |-> <<>>]
  /\ container = wrapElement
  /\ volumePressed = Template(type, options).volumePressed
  /\ fullscreenPressed = FALSE
  /\ posterActive = Template(type, options).posterActive
  /\ hidden = FALSE
  /\ labels = [playPause |-> Template(type, options).labels.playPause,
               bigPlay |-> Template(type, options).labels.bigPlay,
               volume |-> cacheElements(type, options),
               fullscreen |-> Template(type, options).labels.fullscreen]
  /\ progress = Template(type, options).progress
  /\ timeLabels = Template(type, options).timeLabels
  /\ timers = 0
  /\ timerLive = FALSE
  /\ inDocument = (target \in {Media, SelectorDiv})
  /\ pending = EmptyBag
  /\ ready = FALSE
  /\ destroyed = FALSE
  /\ docFullScreen = FALSE
  /\ registered = <<>>
  /\ cleared = 0
  /\ lastArg = 0
  /\ lastOp = "new"
  /\ trace = <<>>

\* ------------------------------------------------------------ actions
\* Time-update and seek futures in flight; the duration future of
\* ControlBar.onPlayerReady is issued once and needs no bound.
InFlight == BagCardinality(pending) - CopiesIn([k |-> "duration", s |-> 0], pending)

\* An operation ran: p is the state it left, arg its argument.
InFlightOf(b) == BagCardinality(b) - CopiesIn([k |-> "duration", s |-> 0], b)

Ran(name, arg, p) ==
  /\ built
  /\ InFlightOf(p.pending) <= limits.futures
  /\ Set(p)
  /\ lastOp' = name
  /\ lastArg' = arg
  /\ UNCHANGED <<config, vIsPaused, built>>

\* The platform carries out the fullscreen commands the operation issued.
Platform(doc, tr) ==
  LET cs == SelectSeq(tr, LAMBDA e : e \in {Call("requestFn", 0), Call("cancelFn", 0)})
  IN IF cs = <<>> THEN doc ELSE cs[Len(cs)] = Call("requestFn", 0)

Op(name, arg, p) ==
  /\ Ran(name, arg, p)
  /\ docFullScreen' = Platform(docFullScreen, p.trace)
  /\ UNCHANGED listening

Same == UNCHANGED <<ready, destroyed, registered, cleared>>

Play == Op("play", 0, play(Cur)) /\ Same

Pause == Op("pause", 0, pause(Cur)) /\ Same

\* The consumer calls play() and pause() back to back.
PlayThenPause ==
  Op("play;pause", 0, LET p1 == play(Cur) IN IF Ok(p1) THEN pause(p1) ELSE p1) /\ Same

SetVolume == \E v \in VolumeInputs : Op("setVolume", v, setVolume(Cur, v)) /\ Same

Mute == Op("mute", 0, mute(Cur)) /\ Same

UnMute == Op("unMute", 0, unMute(Cur)) /\ Same

RequestFullscreen == Op("requestFullscreen", 0, requestFullscreen(Cur)) /\ Same

\* exitFullscreen() or exitFullscreen({escKey: true}); the argument is recorded as 0 or 1.
ExitFullscreen ==
  \E escKey \in BOOLEAN :
    Op("exitFullscreen", IF escKey THEN 1 ELSE 0, exitFullscreen(Cur, escKey)) /\ Same

On ==
  \E ty \in OnKinds, l \in Listeners \cup {NotAFunction} :
    /\ Len(registered) < limits.regs
    /\ Op("on", l, on(Cur, ty, l))
    /\ registered' = IF l # NotAFunction THEN Append(registered, <<ty, l>>) ELSE registered
    /\ UNCHANGED <<ready, destroyed, cleared>>

DispatchEvent == \E ty \in DispatchKinds : Op("dispatchEvent", 0, dispatchEvent(Cur, ty)) /\ Same

\* The adapter reports readiness, once;
\* media.muted at that moment is recorded as 1 or 0.
OnPlayerReady ==
  \E mediaMuted \in BOOLEAN :
    /\ ~ready
    /\ Op("onPlayerReady", IF mediaMuted THEN 1 ELSE 0, onPlayerReady(Cur, mediaMuted))
    /\ ready' = TRUE
    /\ UNCHANGED <<destroyed, registered, cleared>>

\* The adapter reports a time update.
OnTimeUpdate ==
  /\ ready
  /\ options.time => InFlight < limits.futures
  /\ Op("onTimeUpdate", 0, onTimeUpdate(Cur))
  /\ Same

\* The adapter reports the end of the media.
OnVideoEnded ==
  /\ ready
  /\ Op("onVideoEnded", 0, onVideoEnded(Cur))
  /\ Same

Destroy ==
  /\ ~destroyed
  /\ Op("destroy", 0, destroy(Cur))
  /\ destroyed' = Ok(destroy(Cur))
  /\ cleared' = IF Ok(destroy(Cur)) THEN Len(registered) ELSE cleared
  /\ UNCHANGED <<ready, registered>>

\* An input event of the progress slider, whose value the browser has set to s;
\* the listener is attached by ControlBar.addEvents and detached by Player.destroy.
OnInputProgressBar ==
  \E s \in SliderInputs :
    /\ ElProgressBar /\ ~destroyed
    /\ InFlight < limits.futures
    /\ Op("onInputProgressBar", s * 10, onInputProgressBar(Cur, s * 10))
    /\ Same

Drop(b, f) == b (-) SetToBag({f})

\* A future of the adapter resolves and its callback runs.
ResolveSeek ==
  \E f \in BagToSet(pending) :
    /\ f.k = "seek"
    /\ Op("resolveSeek", f.s,
          onInputProgressBarThen([Cur EXCEPT !.pending = Drop(@, f)], duration))
    /\ Same

\* The first of the two futures of an onTimeUpdate resolves: Promise.all waits.
ResolveOneOfTwo ==
  \E f \in BagToSet(pending) :
    /\ f.k = "timeupdate" /\ f.s = 0
    /\ Op("resolveOneOfTwo", 0,
          [Cur EXCEPT !.pending = Drop(@, f) (+) SetToBag({[k |-> "timeupdate", s |-> 1]})])
    /\ Same

\* The second resolves: the callback runs with both results.
ResolveTimeUpdate ==
  \E f \in BagToSet(pending), seconds \in TimeInputs :
    /\ f.k = "timeupdate" /\ f.s = 1
    /\ Op("resolveTimeUpdate", seconds,
          onTimeUpdateThen([Cur EXCEPT !.pending = Drop(@, f)], seconds, duration))
    /\ Same

ResolveDuration ==
  \E f \in BagToSet(pending) :
    /\ f.k = "duration"
    /\ Op("resolveDuration", 0,
          controlBarOnPlayerReadyThen([Cur EXCEPT !.pending = Drop(@, f)], duration))
    /\ Same

ResolveFastForward ==
  \E f \in BagToSet(pending), seconds \in TimeInputs :
    /\ f.k = "fastForward"
    /\ Op("resolveFastForward", seconds,
          fastForwardThen([Cur EXCEPT !.pending = Drop(@, f)], seconds, f.s))
    /\ Same

\* The future getVolume returned resolves; its continuation is the caller's.
ResolveGetVolume ==
  \E f \in BagToSet(pending) :
    /\ f.k = "getVolume"
    /\ Op("resolveGetVolume", 0, [Cur EXCEPT !.pending = Drop(@, f)])
    /\ Same

SeekTo == \E t \in SeekInputs : Op("seekTo", t, seekTo(Cur, t)) /\ Same

GetVolume == Op("getVolume", 0, getVolume(Cur)) /\ Same

TogglePlayPause == Op("togglePlayPause", 0, togglePlayPause(Cur)) /\ Same

ToggleVolume == Op("toggleVolume", 0, toggleVolume(Cur)) /\ Same

ToggleFullscreen == Op("toggleFullscreen", 0, toggleFullscreen(Cur)) /\ Same

\* A key is pressed anywhere in the document.
OnKeydown ==
  \E keyCode \in KeyCodes :
    /\ listening
    /\ Op("onKeydown", keyCode, onKeydown(Cur, keyCode))
    /\ Same

\* The mouse moves over the container; the listener is attached when auto-hide is granted.
OnMousemove ==
  /\ listening /\ autoHideGranted /\ inDocument
  /\ Op("onMousemove", 0, onMousemove(Cur))
  /\ Same

\* The user double-clicks in the container, on the overlay (1) or elsewhere (0).
OnDoubleClickOnPlayer ==
  \E onOverlay \in BOOLEAN :
    /\ listening /\ type = "video" /\ inDocument
    /\ Op("onDoubleClickOnPlayer", IF onOverlay THEN 1 ELSE 0,
          onDoubleClickOnPlayer(Cur, onOverlay))
    /\ Same

\* The platform leaves fullscreen on the escape key.
Escape ==
  /\ docFullScreen
  /\ Ran("escape", 0, Cur)
  /\ docFullScreen' = FALSE
  /\ UNCHANGED listening
  /\ Same

\* The platform's fullscreen-change notification reaches the window.
OnChangeFullScreen ==
  /\ listening /\ type = "video"
  /\ Op("onChangeFullScreen", 0, onChangeFullScreen(Cur))
  /\ Same

\* The consumer calls destroy() of the Vlitejs instance.
VlitejsDestroy ==
  /\ listening
  /\ Ran("Vlitejs.destroy", 0, vlitejsDestroy(Cur))
  /\ listening' = FALSE
  /\ destroyed' = (destroyed \/ Ok(destroy(Cur)))
  /\ cleared' = IF Ok(destroy(Cur)) THEN Len(registered) ELSE cleared
  /\ UNCHANGED <<docFullScreen, ready, registered>>

\* delayAutoHide elapses with no other operation: a pending timeout fires.
Elapse ==
  /\ Op("elapse", 0, IF timers > 0 THEN autoHideTimeout(Cur) ELSE Cur)
  /\ Same

\* A future of the adapter rejects: no callback was given for that, none runs.
Reject ==
  \E f \in BagToSet(pending) :
    /\ Op("reject", f.s, [Cur EXCEPT !.pending = Drop(@, f)])
    /\ Same

Init == InitFrom(Scenarios)

Next ==
  \/ Play
  \/ Pause
  \/ PlayThenPause
  \/ SetVolume
  \/ Mute
  \/ UnMute
  \/ RequestFullscreen
  \/ ExitFullscreen
  \/ On
  \/ DispatchEvent
  \/ OnPlayerReady
  \/ OnTimeUpdate
  \/ OnVideoEnded
  \/ Destroy
  \/ OnInputProgressBar
  \/ ResolveSeek
  \/ ResolveTimeUpdate
  \/ ResolveDuration
  \/ Reject
  \/ ResolveOneOfTwo

Spec == Init /\ [][Next]_vars

\* The playback operations and the registry, with MaxRegs registrations.
InitEvents == InitFrom(EventScenarios)

NextEvents ==
  \/ Play
  \/ Pause
  \/ PlayThenPause
  \/ Mute
  \/ On
  \/ DispatchEvent
  \/ OnPlayerReady
  \/ OnVideoEnded
  \/ Destroy
  \/ ResolveDuration
  \/ Reject

SpecEvents == InitEvents /\ [][NextEvents]_vars

\* The playback operations and the adapter's futures, MaxPending in flight.
InitFutures == InitFrom(FutureScenarios)

NextFutures ==
  \/ Play
  \/ Pause
  \/ OnPlayerReady
  \/ OnTimeUpdate
  \/ OnVideoEnded
  \/ Destroy
  \/ OnInputProgressBar
  \/ ResolveSeek
  \/ ResolveTimeUpdate
  \/ ResolveDuration
  \/ Reject
  \/ ResolveOneOfTwo

SpecFutures == InitFutures /\ [][NextFutures]_vars

\* The adapter's capabilities, each missing in turn.
InitAdapter == InitFrom(AdapterScenarios)

NextAdapter ==
  \/ Play
  \/ Pause
  \/ SetVolume
  \/ Mute
  \/ UnMute
  \/ SeekTo
  \/ GetVolume
  \/ OnPlayerReady
  \/ OnTimeUpdate
  \/ Destroy
  \/ ResolveOneOfTwo
  \/ ResolveTimeUpdate
  \/ ResolveDuration
  \/ ResolveGetVolume
  \/ Reject

SpecAdapter == InitAdapter /\ [][NextAdapter]_vars

\* The control bar's toggles and the host shell's handlers and timer.
InitHost == InitFrom(HostScenarios)

NextHost ==
  \/ Play
  \/ Pause
  \/ SetVolume
  \/ RequestFullscreen
  \/ OnPlayerReady
  \/ OnVideoEnded
  \/ Destroy
  \/ TogglePlayPause
  \/ ToggleVolume
  \/ ToggleFullscreen
  \/ OnKeydown
  \/ OnMousemove
  \/ Elapse
  \/ ResolveFastForward
  \/ ResolveDuration
  \/ Reject

SpecHost == InitHost /\ [][NextHost]_vars

\* Fullscreen and teardown as the host page drives them.
InitScreen == InitFrom(ScreenScenarios)

NextScreen ==
  \/ Play
  \/ Pause
  \/ Mute
  \/ OnPlayerReady
  \/ OnVideoEnded
  \/ RequestFullscreen
  \/ ExitFullscreen
  \/ ToggleFullscreen
  \/ TogglePlayPause
  \/ OnKeydown
  \/ ResolveFastForward
  \/ Destroy
  \/ OnDoubleClickOnPlayer
  \/ Escape
  \/ OnChangeFullScreen
  \/ VlitejsDestroy

SpecScreen == InitScreen /\ [][NextScreen]_vars

\* Registrations, time updates in flight and destroy().
InitTeardown == InitFrom(TeardownScenarios)

NextTeardown ==
  \/ On
  \/ Pause
  \/ OnPlayerReady
  \/ OnTimeUpdate
  \/ DispatchEvent
  \/ Destroy
  \/ ResolveOneOfTwo
  \/ ResolveTimeUpdate
  \/ ResolveDuration
  \/ Reject

SpecTeardown == InitTeardown /\ [][NextTeardown]_vars

\* ============================================================ claims
Calls(tr) == SelectSeq(tr, LAMBDA e : e.t = "call")
Dispatches(tr) == SelectSeq(tr, LAMBDA e : e.t = "dispatch")
Invocations(tr) == SelectSeq(tr, LAMBDA e : e.t = "invoke")
\* The listeners the trace invoked for kind k, in order.
InvokedFor(tr, k) ==
  LET es == SelectSeq(tr, LAMBDA e : e.t = "invoke" /\ e.n = k)
  IN [i \in 1..Len(es) |-> es[i].a]
\* The listeners registered for kind k among regs, in order of registration.
ListenersOf(regs, k) ==
  LET rs == SelectSeq(regs, LAMBDA r : r[1] = k)
  IN [i \in 1..Len(rs) |-> rs[i][2]]
\* The registrations the registry should hold: those made since the last destroy().
Live == SubSeq(registered, cleared + 1, Len(registered))

\* C1: after setVolume(v), v <= 0 leaves the player muted with the mute control
\* pressed, and every v > 0, also v > 1, leaves it unmuted with the control released,
\* whatever the state before.  The code leaves the muted state alone when v > 1.
C1_SetVolumeSetsMuted ==
  lastOp = "setVolume" =>
    IF lastArg <= 0
    THEN isMuted /\ (ElVolume => volumePressed)
    ELSE ~isMuted /\ ~volumePressed

\* C2: setVolume(v) sends the adapter exactly one set-volume command, carrying 1
\* when v > 1, 0 when v <= 0 and v otherwise, and then emits exactly one
\* volumechange event.
C2_SetVolumeForwardsClamped ==
  lastOp = "setVolume" =>
    /\ Calls(trace) =
         <<Call("methodSetVolume",
                IF lastArg > 100 THEN 100 ELSE IF lastArg <= 0 THEN 0 ELSE lastArg)>>
    /\ Dispatches(trace) = <<Dispatch("volumechange")>>
    /\ trace[1].t = "call"
    /\ trace[2].t = "dispatch"

C2_Witness ==
  /\ lastOp = "setVolume"
  /\ lastArg > 100
  /\ trace = <<Call("methodSetVolume", 100), Dispatch("volumechange")>>

\* The invocations a dispatch of kind k owes to the registrations regs.
Owed(regs, k) ==
  [i \in 1..Len(ListenersOf(regs, k)) |-> Invoke(k, ListenersOf(regs, k)[i])]

\* C3: play() followed at once by pause() leaves isPaused true, sends the adapter
\* play and then pause, and delivers one play event and then one pause event to
\* the listeners registered for them.
C3_PlayThenPause ==
  lastOp = "play;pause" =>
    /\ isPaused = True
    /\ Calls(trace) = <<Call("methodPlay", 0), Call("methodPause", 0)>>
    /\ Dispatches(trace) = <<Dispatch("play"), Dispatch("pause")>>
    /\ Invocations(trace) = Owed(Live, "play") \o Owed(Live, "pause")

C3_Witness ==
  /\ lastOp = "play;pause"
  /\ ListenersOf(Live, "play") # <<>>
  /\ ListenersOf(Live, "pause") # <<>>
  /\ isPaused = True

PlayerFlags ==
  <<isPaused, isMuted, isFullScreen, container, posterActive, volumePressed,
    fullscreenPressed, hidden, labels>>

\* C4: after play() the player is playing (isPaused false, container v-playing and
\* not v-paused) and one play event was emitted; play() on a player that is
\* already playing changes no state flag.
C4_PlayLeavesPlaying ==
  [][lastOp' = "play" =>
       /\ isPaused' = False
       /\ "v-playing" \in container'
       /\ "v-paused" \notin container'
       /\ Dispatches(trace') = <<Dispatch("play")>>
       /\ (isPaused = False /\ "v-playing" \in container) => UNCHANGED PlayerFlags]_vars

C4_Witness ==
  /\ lastOp = "play"
  /\ ready
  /\ isPaused = False
  /\ "v-playing" \in container
  /\ "v-firstStart" \notin container

\* C5: once onPlayerReady has run, isPaused is a boolean, with or without
\* autoplay.  The code sets isPaused only in play() and pause().
C5_BooleanAfterReady == ready => isPaused \in {True, False}

\* C6: onVideoEnded() with loop sends the adapter play; without loop the container
\* is paused and first-start, the progress value is "0" and the time label
\* "00:00"; either way one ended event is emitted.
C6_VideoEnded ==
  lastOp = "onVideoEnded" =>
    /\ options.loop => \E i \in DOMAIN trace : trace[i] = Call("methodPlay", 0)
    /\ ~options.loop =>
         /\ {"v-paused", "v-firstStart"} \subseteq container
         /\ "v-playing" \notin container
         /\ ElProgressBar => progress.value = 0
         /\ ElCurrentTime => timeLabels.currentTime = "00:00"
    /\ Len(SelectSeq(trace, LAMBDA e : e = Dispatch("ended"))) = 1

C6_Witness ==
  /\ lastOp = "onVideoEnded"
  /\ ~options.loop
  /\ ElProgressBar
  /\ progress.value = 0
  /\ progress.valuemax # NoValue
  /\ isPaused = False

\* C7 as stated: dispatchEvent(kind) invokes the listeners registered for kind
\* since construction, once per registration and in that order, and no other.
C7_DispatchInvokesAllRegistered ==
  lastOp = "dispatchEvent" => Invocations(trace) = Owed(registered, trace[1].n)

\* C7, amended: dispatchEvent(kind) invokes the listeners registered for kind
\* since construction or, after a destroy(), since that destroy(), once per
\* registration and in that order, and no other; it changes no state.
C7_DispatchInvokesLive ==
  [][lastOp' = "dispatchEvent" =>
       /\ Invocations(trace') = Owed(Live', trace'[1].n)
       /\ Len(trace') = 1 + Len(Invocations(trace'))
       /\ UNCHANGED <<PlayerFlags, customEvents, pending, progress, timeLabels>>]_vars

C7_Witness ==
  /\ lastOp = "dispatchEvent"
  /\ Len(registered) = 2
  /\ registered[1] = registered[2]
  /\ Len(Invocations(trace)) = 2

\* C8: mute() and unMute() send the adapter no set-volume command, only the mute
\* or unmute command, and each emits exactly one volumechange event, whatever the
\* state before.
C8_MuteUnMuteKeepVolume ==
  lastOp \in {"mute", "unMute"} =>
    /\ \A i \in DOMAIN trace : ~(trace[i].t = "call" /\ trace[i].n = "methodSetVolume")
    /\ Calls(trace) = <<Call(IF lastOp = "mute" THEN "methodMute" ELSE "methodUnMute", 0)>>
    /\ Dispatches(trace) = <<Dispatch("volumechange")>>

C8_Witness ==
  /\ lastOp = "unMute"
  /\ ~isMuted
  /\ trace = <<Call("methodUnMute", 0), Dispatch("volumechange")>>

\* C9: without the runtime's fullscreen request capability, requestFullscreen()
\* leaves isFullScreen, the container's and the fullscreen button's visual flags
\* as they were and emits no enterfullscreen event.
C9_RequestWithoutCapability ==
  [][(lastOp' = "requestFullscreen" /\ ~support.request) =>
       /\ UNCHANGED <<isFullScreen, container, fullscreenPressed>>
       /\ \A i \in DOMAIN trace' : trace'[i] # Dispatch("enterfullscreen")]_vars

C9_Witness ==
  /\ lastOp = "requestFullscreen"
  /\ ~support.request
  /\ ~isFullScreen
  /\ trace = <<>>

\* C10: an input tick with slider value s writes s into the fill indicator and
\* issues no seek; when the duration resolves to d, exactly one seek to (s/100)*d
\* is issued.  The code reads the slider when the duration resolves, not at the tick.
C10_SeekToTickValue ==
  /\ lastOp = "onInputProgressBar" => progress.fill = lastArg /\ Calls(trace) = <<>>
  /\ lastOp = "resolveSeek" =>
       trace = <<Call("methodSeekTo", ((lastArg \div 10) * duration) \div 100)>>

\* C11: with auto-hide granted (video, autoHide and controls on), the auto-hide
\* timer is pending after play(), and when its delay elapses with the player
\* still playing the control bar is hidden.  startAutoHideTimer tests
\* Vlitejs.isPaused, which the constructor sets and nothing updates.
C11_AutoHideAfterPlay ==
  autoHideGranted =>
    /\ (lastOp = "play" /\ error = NoError) => (timerLive /\ timers = 1)
    /\ (lastOp = "elapse" /\ isPaused = False /\ "v-playing" \in container) => hidden

\* C12: after construction, each of autoplay, playsinline, muted and loop is an
\* attribute of the media element if and only if the merged option is true,
\* options that are true by a per-kind default included.  The constructor sets
\* attributes from the caller's options, before the defaults are merged in.
C12_AttributesFollowOptions ==
  built => \A k \in domAttributes : (k \in attributes) <=> options[k]

\* C13: construction with an invalid target (a selector that matches nothing, a
\* selector that matches an element that is neither audio nor video, an object
\* that is not a media element) throws, and does so before the wrapper is
\* inserted, the player built or a listener attached.  The constructor tests the
\* kind of the target only when it is not a string.
C13_InvalidTargetThrows ==
  target # Media => (error # NoError /\ ~inDocument /\ ~built /\ ~listening)

\* The capabilities an operation of Player calls.
Uses(op) ==
  CASE op = "new" -> {"init"}
    [] op = "play" -> {"methodPlay"}
    [] op = "pause" -> {"methodPause"}
    [] op = "seekTo" -> {"methodSeekTo"}
    [] op = "setVolume" -> {"methodSetVolume"}
    [] op = "getVolume" -> {"methodGetVolume"}
    [] op = "mute" -> {"methodMute"}
    [] op = "unMute" -> {"methodUnMute"}
    [] op = "onTimeUpdate" -> IF options.time THEN {"getCurrentTime", "getDuration"} ELSE {}
    [] OTHER -> {}

\* C14: when the adapter leaves a capability to Player's stub, each of play, pause,
\* seekTo, setVolume, getVolume, mute, unMute, onTimeUpdate and build throws the
\* "You have to implement the function ..." error naming it at its caller, and
\* does not return a rejected future instead.  getVolume calls methodGetVolume
\* inside the executor of a new promise.
C14_MissingCapabilityThrows ==
  \A fn \in Uses(lastOp) \ implemented :
    /\ error = NotImplemented(fn)
    /\ \A i \in DOMAIN trace : trace[i].t # "rejected"

\* C15: whichever control nodes are absent after cacheElements, every operation
\* of the player and of the control bar, the three toggles included, completes
\* without an error.  toggleVolume and toggleFullscreen use elements.volume! and
\* elements.fullscreen! without a test.
C15_AbsentNodesAreNoOps ==
  (built /\ lastOp # "new") => error = NoError

\* C16: on a video the poster is shown (v-active) only while the container is in
\* the first-start sub-state; onVideoEnded() with loop replays without showing
\* the poster again.  onVideoEnded shows the poster after either branch.
C16_PosterOnlyAtFirstStart ==
  (type = "video" /\ posterActive) => "v-firstStart" \in container

\* C17: after toggleFullscreen the fullscreen control's label is "Exit fullscreen"
\* exactly when isFullScreen is true, also when the request had no effect for
\* want of the runtime capability; after toggleVolume the volume control's label
\* is "Unmute" exactly when isMuted is true.  toggleFullscreen writes the label
\* of the command it issued, whether or not the command took effect.
C17_ToggleLabelsMatchState ==
  /\ (lastOp = "toggleFullscreen" /\ ElFullscreen) =>
       (labels.fullscreen = "Exit fullscreen" <=> isFullScreen)
  /\ (lastOp = "toggleVolume" /\ ElVolume) => (labels.volume = "Unmute" <=> isMuted)

\* C18: onTimeUpdate() with the time option off queries nothing, updates nothing
\* and emits nothing; with it on, the progress indicator and the time label are
\* written and timeupdate is emitted only when the second of the two futures has
\* resolved, and when one of them rejects nothing is written, emitted or thrown.
C18_TimeUpdateTick ==
  [][/\ (lastOp' = "onTimeUpdate" /\ ~options.time) =>
          (trace' = <<>> /\ error' = NoError /\ UNCHANGED <<pending, progress, timeLabels>>)
     /\ lastOp' \in {"onTimeUpdate", "resolveOneOfTwo", "reject"} =>
          /\ UNCHANGED <<progress, timeLabels>>
          /\ Dispatches(trace') = <<>>
          /\ error' = NoError
     /\ lastOp' = "resolveTimeUpdate" =>
          /\ pending' = Drop(pending, [k |-> "timeupdate", s |-> 1])
          /\ BagCardinality(pending') = BagCardinality(pending) - 1
          /\ Dispatches(trace') = <<Dispatch("timeupdate")>>
          /\ ElProgressBar => progress'.valuenow = MathRound(lastArg')]_vars

C18_Witness ==
  /\ lastOp = "reject"
  /\ lastArg = 1
  /\ options.time
  /\ progress.valuenow # NoValue

\* C19: destroy() sends the adapter pause, emits one pause event to the listeners
\* registered at that moment and empties the registry; after it no dispatch, the
\* one of a time update that resolves later included, invokes a listener
\* registered before it.
C19_DestroyClearsRegistry ==
  [][/\ lastOp' = "destroy" =>
          /\ Calls(trace') = <<Call("methodPause", 0)>>
          /\ Dispatches(trace') = <<Dispatch("pause")>>
          /\ Invocations(trace') = Owed(Live, "pause")
          /\ DOMAIN customEvents' = {}
     /\ (destroyed' /\ lastOp' # "destroy") =>
          \A k \in OnKinds :
            InvokedFor(trace', k) =
              IF \E i \in DOMAIN trace' : trace'[i] = Dispatch(k)
              THEN ListenersOf(Live', k) ELSE <<>>]_vars

C19_Witness ==
  /\ destroyed
  /\ lastOp = "resolveTimeUpdate"
  /\ cleared > 0
  /\ registered[1][1] = "timeupdate"
  /\ trace = <<Dispatch("timeupdate")>>

\* C20: at most one auto-hide timer is pending, and none while the player is
\* paused or after destroy(): pause(), a tab, space, left or right key press and
\* destroy() leave no timer behind on such a player, and the control bar is not
\* hidden on it.
C20_OneTimerNoneWhilePaused ==
  /\ timers <= 1
  /\ (isPaused = True \/ destroyed) => (timers = 0 /\ ~timerLive /\ ~hidden)

C20_Witness ==
  /\ autoHideGranted
  /\ lastOp = "onKeydown"
  /\ lastArg = 9
  /\ isPaused = True
  /\ "v-firstStart" \notin container
  /\ timers = 0

\* C21: with the runtime's cancel capability present, exitFullscreen({escKey: true})
\* issues no cancel command, and exitFullscreen() issues exactly one; both set
\* isFullScreen to false, clear the fullscreen-button-visible flag and the pressed
\* state of the fullscreen control and emit exactly one exitfullscreen event.
C21_ExitFullscreenEscKey ==
  (lastOp = "exitFullscreen" /\ support.cancel) =>
    /\ Calls(trace) = IF lastArg = 1 THEN <<>> ELSE <<Call("cancelFn", 0)>>
    /\ ~isFullScreen
    /\ "v-fullscreenButton-display" \notin container
    /\ ~fullscreenPressed
    /\ Dispatches(trace) = <<Dispatch("exitfullscreen")>>

C21_Witness ==
  /\ lastOp = "exitFullscreen"
  /\ lastArg = 1
  /\ support.cancel
  /\ ElFullscreen
  /\ labels.playPause = "Pause"
  /\ trace = <<Dispatch("exitfullscreen")>>

\* C22: onPlayerReady() with autoplay leaves the player playing and the media
\* muted, the mute command (when the media was not muted already) going to the
\* adapter before the play command, and the play event is emitted before the
\* loading flag is cleared and progress is emitted; without autoplay the adapter
\* gets no play and no mute command; either way the loading flag is cleared, the
\* control bar's onPlayerReady runs exactly when controls is on, and the host's
\* onReady callback comes last.
C22_OnPlayerReadyOrder ==
  lastOp = "onPlayerReady" =>
    /\ options.autoplay =>
         /\ isPaused = False
         /\ "v-playing" \in container
         /\ lastArg = 0 => isMuted
         /\ Calls(trace) =
              (IF lastArg = 0 THEN <<Call("methodMute", 0)>> ELSE <<>>)
                \o <<Call("methodPlay", 0), Call("onReady", 0)>>
         /\ Dispatches(trace) =
              (IF lastArg = 0 THEN <<Dispatch("volumechange")>> ELSE <<>>)
                \o <<Dispatch("play"), Dispatch("progress")>>
    /\ ~options.autoplay =>
         /\ Calls(trace) = <<Call("onReady", 0)>>
         /\ Dispatches(trace) = <<Dispatch("progress")>>
    /\ "v-loading" \notin container
    /\ CopiesIn([k |-> "duration", s |-> 0], pending) = IF options.controls THEN 1 ELSE 0
    /\ trace[Len(trace)] = Call("onReady", 0)

C22_Witness ==
  /\ lastOp = "onPlayerReady"
  /\ options.autoplay
  /\ lastArg = 0
  /\ isMuted
  /\ isPaused = False
  /\ trace[1] = Call("methodMute", 0)

\* C23: whenever isPaused is a boolean, it agrees with the container: isPaused is
\* true exactly when the container carries v-paused, false exactly when it
\* carries v-playing, and the container carries exactly one of the two.
\* onVideoEnded without loop swaps the classes and leaves isPaused alone.
C23_FlagAgreesWithContainer ==
  isPaused \in {True, False} =>
    /\ (isPaused = True) <=> ("v-paused" \in container)
    /\ (isPaused = False) <=> ("v-playing" \in container)

\* C24: after onVideoEnded() without loop, a time-update query that was issued
\* before the end and resolves right after it leaves the progress indicator at
\* "0" and the current-time label at "00:00".
C24_ResetSurvivesLateTimeUpdate ==
  [][(lastOp = "onVideoEnded" /\ ~options.loop /\ lastOp' = "resolveTimeUpdate") =>
       /\ progress' = progress
       /\ timeLabels' = timeLabels]_vars

\* C25: Vlitejs.destroy() and a double click on the overlay complete without
\* an error, from every state the host can be in.
C25_HostTeardownAndDoubleClickComplete ==
  (lastOp = "Vlitejs.destroy" \/ (lastOp = "onDoubleClickOnPlayer" /\ lastArg = 1)) =>
    error = NoError

\* The exitfullscreen events an operation emitted.
ExitEvents(tr) == Len(SelectSeq(tr, LAMBDA e : e = Dispatch("exitfullscreen")))

\* C26 as stated: every step that takes the player from fullscreen to windowed
\* emits exactly one exitfullscreen event, and a fullscreen-change notification
\* emits exactly one when the platform left fullscreen behind a player still
\* marked fullscreen, none otherwise.
C26_OneExitEventPerTransition_AsStated ==
  [][/\ (isFullScreen /\ ~isFullScreen') => ExitEvents(trace') = 1
     /\ lastOp' = "onChangeFullScreen" =>
          ExitEvents(trace') = IF isFullScreen /\ ~docFullScreen THEN 1 ELSE 0]_vars

\* C26: every step that takes the player from fullscreen to windowed emits
\* exactly one exitfullscreen event; a fullscreen-change notification emits
\* exactly one when the platform left fullscreen behind a player still marked
\* fullscreen and the cancel capability is present, none otherwise.
C26_OneExitEventPerTransition ==
  [][/\ (isFullScreen /\ ~isFullScreen') => ExitEvents(trace') = 1
     /\ lastOp' = "onChangeFullScreen" =>
          ExitEvents(trace') =
            IF isFullScreen /\ ~docFullScreen /\ support.cancel THEN 1 ELSE 0]_vars

\* The notification after an escape-key exit has emitted the one event.
C26_Witness ==
  /\ lastOp = "onChangeFullScreen"
  /\ support.cancel
  /\ ~isFullScreen
  /\ ~docFullScreen
  /\ trace = <<Dispatch("exitfullscreen")>>

====
